---------------------------- MODULE Spec2Model ----------------------------
(***************************************************************************)
(* Force Read Mode (Obsidian plugin): the settings store, the settings     *)
(* panel, the enable/disable command and the layout-change reconciler of   *)
(* src/main.ts (lines 1-162).                                              *)
(*                                                                         *)
(* A string is a sequence of one-character strings; a path list is a       *)
(* sequence of strings.  A JavaScript value held under a settings key is a *)
(* record [kind, list, str, bool] so that values of the wrong shape read   *)
(* from data.json can be told apart from path lists.                       *)
(***************************************************************************)
EXTENDS Naturals, Sequences, FiniteSets, TLC

(***************************************************************************)
(* Bounds of the model.                                                    *)
(***************************************************************************)
\* number of leaves getLeavesOfType('markdown') returns
NumLeaves == 2
\* saveData calls that may be pending at once
MaxInFlight == 1
\* longest raw text typed into a text area in SpecPanel
MaxTextLen == 4

(***************************************************************************)
(* Strings.                                                                *)
(***************************************************************************)
NL == "\n"
SP == " "

\* characters String.prototype.trim removes (those of the modelled alphabet)
IsWhitespace(c) == c \in {SP, NL, "\t", "\r"}

\* String.prototype.startsWith
startsWith(s, p) == Len(p) <= Len(s) /\ SubSeq(s, 1, Len(p)) = p

\* String.prototype.includes: substring test
stringIncludes(s, p) ==
    \E i \in 0..Len(s) : i + Len(p) <= Len(s) /\ SubSeq(s, i + 1, i + Len(p)) = p

\* Array.prototype.includes
arrayIncludes(arr, x) == \E i \in 1..Len(arr) : arr[i] = x

\* String.prototype.split(sep) for a one-character separator
RECURSIVE split(_, _)
split(value, sep) ==
    IF \A i \in 1..Len(value) : value[i] # sep
    THEN <<value>>
    ELSE LET i == CHOOSE k \in 1..Len(value) :
                      value[k] = sep /\ \A j \in 1..(k - 1) : value[j] # sep
         IN  <<SubSeq(value, 1, i - 1)>> \o split(SubSeq(value, i + 1, Len(value)), sep)

\* String.prototype.trim
RECURSIVE trim(_)
trim(s) ==
    IF s = <<>> THEN s
    ELSE IF IsWhitespace(s[1]) THEN trim(Tail(s))
    ELSE IF IsWhitespace(s[Len(s)]) THEN trim(SubSeq(s, 1, Len(s) - 1))
    ELSE s

NonEmpty(path) == Len(path) > 0

\* mutant: filter before map
parsePaths_filterFirst(value) ==
    LET lines == SelectSeq(split(value, NL), NonEmpty)
    IN  [i \in 1..Len(lines) |-> trim(lines[i])]

\* value.split('\n').map(path => path.trim()).filter(path => path.length > 0)
parsePaths(value) ==
    LET lines == split(value, NL)
        trimmed == [i \in 1..Len(lines) |-> trim(lines[i])]
    IN  SelectSeq(trimmed, NonEmpty)

(***************************************************************************)
(* JavaScript values under a settings key.                                 *)
(***************************************************************************)
Keys == {"targetFolderPaths", "targetFilePaths", "restoreSourceMode"}

ArrayVal(l)  == [kind |-> "array",     list |-> l,    str |-> <<>>, bool |-> FALSE]
StringVal(s) == [kind |-> "string",    list |-> <<>>, str |-> s,    bool |-> FALSE]
BoolVal(b)   == [kind |-> "boolean",   list |-> <<>>, str |-> <<>>, bool |-> b]
NullVal      == [kind |-> "null",      list |-> <<>>, str |-> <<>>, bool |-> FALSE]
\* the key is not an own property of the object
AbsentVal    == [kind |-> "absent",    list |-> <<>>, str |-> <<>>, bool |-> FALSE]

\* ToBoolean
Truthy(v) ==
    CASE v.kind = "boolean" -> v.bool
      [] v.kind = "array"   -> TRUE
      [] v.kind = "string"  -> Len(v.str) > 0
      [] OTHER              -> FALSE

DEFAULT_SETTINGS ==
    [k \in Keys |->
        CASE k = "targetFolderPaths" -> ArrayVal(<<>>)
          [] k = "targetFilePaths"   -> ArrayVal(<<>>)
          [] k = "restoreSourceMode" -> BoolVal(FALSE)]

\* what loadData() resolves to when there is no data.json
NoData == [present |-> FALSE, keys |-> [k \in Keys |-> AbsentVal]]
DataOf(obj) == [present |-> TRUE, keys |-> obj]

\* Object.assign({}, defaults, data): own properties of data override those of
\* defaults; a null or undefined source is skipped
ObjectAssign(defaults, data) ==
    [k \in Keys |->
        IF data.present /\ data.keys[k].kind # "absent"
        THEN data.keys[k]
        ELSE defaults[k]]


(***************************************************************************)
(* Sample inputs.                                                          *)
(***************************************************************************)
\* "n/x" and "nb/x": a file in folder "n" and a file in its sibling "nb"
DocPaths == { <<"n", "/", "x">>, <<"n", "b", "/", "x">> }

\* raw texts typed into the folder-paths text area: "" and " n\n"
FolderTexts == { <<>>, <<SP, "n", NL>> }

\* raw texts typed into the file-paths text area: "" and "\nn/x "
FileTexts == { <<>>, <<NL, "n", "/", "x", SP>> }

\* what data.json may hold when the plugin starts
PersistedChoices ==
    { NoData,
      \* written by the folder-only version of the plugin (main.ts 164-266)
      DataOf([k \in Keys |-> IF k = "targetFolderPaths"
                             THEN ArrayVal(<< <<"n">> >>) ELSE AbsentVal]),
      DataOf([k \in Keys |->
          CASE k = "targetFolderPaths" -> ArrayVal(<< <<"n">> >>)
            [] k = "targetFilePaths"   -> ArrayVal(<< <<"n", "/", "x">> >>)
            [] k = "restoreSourceMode" -> BoolVal(TRUE)]),
      \* wrong shapes: null for a list, a string for a list
      DataOf([k \in Keys |-> IF k = "targetFolderPaths" THEN NullVal ELSE AbsentVal]),
      DataOf([k \in Keys |->
          CASE k = "targetFolderPaths" -> ArrayVal(<< <<"n">> >>)
            [] k = "targetFilePaths"   -> NullVal
            [] k = "restoreSourceMode" -> AbsentVal]),
      DataOf([k \in Keys |-> IF k = "targetFilePaths"
                             THEN StringVal(<<"n", "/", "x">>) ELSE AbsentVal]) }

(***************************************************************************)
(* Leaves and view states (owned by the host).                             *)
(***************************************************************************)
LeafIds == 1..NumLeaves
Modes == {"source", "preview"}
NoFile == <<>>

\* a leaf of type 'markdown': its view is a MarkdownView or not yet one (a
\* deferred view); view.file is a file path or absent
LeafConfigs ==
    { [view |-> "DeferredView", file |-> NoFile, mode |-> "source"],
      [view |-> "MarkdownView", file |-> NoFile, mode |-> "source"] }
    \cup { [view |-> "MarkdownView", file |-> p, mode |-> m] : p \in DocPaths, m \in Modes }

\* leaf.getViewState()
getViewState(leaf) ==
    [type |-> "markdown", state |-> [mode |-> leaf.mode, file |-> leaf.file]]

\* leaf.setViewState(vs), as the host applies it: the view takes the mode of
\* vs.state and keeps its file
setViewState(leaf, vs) == [leaf EXCEPT !.mode = vs.state.mode]

\* { ...leaf.getViewState(), state: { mode: m } }
withMode(vs, m) == [vs EXCEPT !.state = [mode |-> m]]

NoViewState == [type |-> "", state |-> [mode |-> ""]]
NoCall == [issued |-> FALSE, got |-> NoViewState, put |-> NoViewState]
CallOf(leaf, m) ==
    [issued |-> TRUE, got |-> getViewState(leaf), put |-> withMode(getViewState(leaf), m)]

(***************************************************************************)
(* The reconciler's decision for one leaf (main.ts 62-98).                 *)
(***************************************************************************)
\* x.includes exists: x is an array or a string
HasIncludes(v) == v.kind \in {"array", "string"}
\* x.some exists: x is an array
HasSome(v) == v.kind = "array"
\* x.join exists: x is an array
HasJoin(v) == v.kind = "array"

\* this.settings.targetFilePaths.includes(file.path)
isExactMatch(s, path) ==
    IF s["targetFilePaths"].kind = "array"
    THEN arrayIncludes(s["targetFilePaths"].list, path)
    ELSE stringIncludes(s["targetFilePaths"].str, path)

\* mutant: receiver and argument of startsWith swapped
isInTargetFolder_swapped(s, path) ==
    \E i \in 1..Len(s["targetFolderPaths"].list) :
        startsWith(s["targetFolderPaths"].list[i], path)

\* mutant: the separator-safe test, path === folder || startsWith(folder + '/')
isInTargetFolder_separator(s, path) ==
    \E i \in 1..Len(s["targetFolderPaths"].list) :
        \/ path = s["targetFolderPaths"].list[i]
        \/ startsWith(path, s["targetFolderPaths"].list[i] \o <<"/">>)

\* this.settings.targetFolderPaths.some(path => file.path.startsWith(path))
isInTargetFolder(s, path) ==
    \E i \in 1..Len(s["targetFolderPaths"].list) :
        startsWith(path, s["targetFolderPaths"].list[i])

\* mutant: && where the code has ||
decide_and(s, leaf) ==
    IF leaf.view # "MarkdownView" THEN "skip"
    ELSE IF leaf.file = NoFile THEN "skip"
    ELSE IF ~HasIncludes(s["targetFilePaths"]) THEN "throw"
    ELSE IF ~HasSome(s["targetFolderPaths"]) THEN "throw"
    ELSE IF isExactMatch(s, leaf.file) /\ isInTargetFolder(s, leaf.file) THEN "preview"
    ELSE IF Truthy(s["restoreSourceMode"]) THEN "source"
    ELSE "skip"

\* mutant: a view already in the mode wanted is not written again
decide_shortCircuit(s, leaf) ==
    IF leaf.view # "MarkdownView" THEN "skip"
    ELSE IF leaf.file = NoFile THEN "skip"
    ELSE IF ~HasIncludes(s["targetFilePaths"]) THEN "throw"
    ELSE IF ~HasSome(s["targetFolderPaths"]) THEN "throw"
    ELSE IF isExactMatch(s, leaf.file) \/ isInTargetFolder(s, leaf.file)
         THEN (IF leaf.mode = "preview" THEN "skip" ELSE "preview")
    ELSE IF Truthy(s["restoreSourceMode"])
         THEN (IF leaf.mode = "source" THEN "skip" ELSE "source")
    ELSE "skip"

\* mutant: source mode restored whatever restoreSourceMode says
decide_alwaysRestore(s, leaf) ==
    IF leaf.view # "MarkdownView" THEN "skip"
    ELSE IF leaf.file = NoFile THEN "skip"
    ELSE IF ~HasIncludes(s["targetFilePaths"]) THEN "throw"
    ELSE IF ~HasSome(s["targetFolderPaths"]) THEN "throw"
    ELSE IF isExactMatch(s, leaf.file) \/ isInTargetFolder(s, leaf.file) THEN "preview"
    ELSE "source"

\* mutant: the check for a missing file left out, so file.path throws
decide_noFileCheck(s, leaf) ==
    IF leaf.view # "MarkdownView" THEN "skip"
    ELSE IF leaf.file = NoFile THEN "throw"
    ELSE IF ~HasIncludes(s["targetFilePaths"]) THEN "throw"
    ELSE IF ~HasSome(s["targetFolderPaths"]) THEN "throw"
    ELSE IF isExactMatch(s, leaf.file) \/ isInTargetFolder(s, leaf.file) THEN "preview"
    ELSE IF Truthy(s["restoreSourceMode"]) THEN "source"
    ELSE "skip"

\* the callback of leaves.forEach: "skip", "throw", or the mode to set
decide(s, leaf) ==
    IF leaf.view # "MarkdownView" THEN "skip"
    ELSE IF leaf.file = NoFile THEN "skip"
    ELSE IF ~HasIncludes(s["targetFilePaths"]) THEN "throw"
    ELSE IF ~HasSome(s["targetFolderPaths"]) THEN "throw"
    ELSE IF isExactMatch(s, leaf.file) \/ isInTargetFolder(s, leaf.file) THEN "preview"
    ELSE IF Truthy(s["restoreSourceMode"]) THEN "source"
    ELSE "skip"

\* the callback of the earlier version that has no restoreSourceMode
\* (src/unnamed/part_000 60-88)
decide_withoutRestore(s, leaf) ==
    IF leaf.view # "MarkdownView" THEN "skip"
    ELSE IF leaf.file = NoFile THEN "skip"
    ELSE IF ~HasIncludes(s["targetFilePaths"]) THEN "throw"
    ELSE IF ~HasSome(s["targetFolderPaths"]) THEN "throw"
    ELSE IF isExactMatch(s, leaf.file) \/ isInTargetFolder(s, leaf.file) THEN "preview"
    ELSE "skip"

\* the callback of the folder-only version (main.ts 199-225)
decide_folderOnly(s, leaf) ==
    IF leaf.view # "MarkdownView" THEN "skip"
    ELSE IF leaf.file = NoFile THEN "skip"
    ELSE IF ~HasSome(s["targetFolderPaths"]) THEN "throw"
    ELSE IF ~isInTargetFolder(s, leaf.file) THEN "skip"
    ELSE "preview"

\* leaves.forEach from leaf i on: a TypeError thrown by the callback ends the
\* iteration and rejects the promise onLayoutChange returns
RECURSIVE forEach(_, _, _, _)
forEach(i, s, ls, cs) ==
    IF i > NumLeaves THEN [leaves |-> ls, calls |-> cs, threw |-> FALSE]
    ELSE LET d == decide(s, ls[i])
         IN  IF d = "throw" THEN [leaves |-> ls, calls |-> cs, threw |-> TRUE]
             ELSE IF d = "skip" THEN forEach(i + 1, s, ls, cs)
             ELSE forEach(i + 1, s,
                          [ls EXCEPT ![i] = setViewState(ls[i], CallOf(ls[i], d).put)],
                          [cs EXCEPT ![i] = CallOf(ls[i], d)])

(***************************************************************************)
(* State.                                                                  *)
(***************************************************************************)
VARIABLES
    loaded,       \* onload has completed
    persisted,    \* data.json, as loadData() would return it
    inflight,     \* saveData calls not yet written, oldest first
    settings,     \* this.settings
    isEnabled,    \* this.isEnabled
    commandName,  \* name of the registered command 'toggle-force-read-mode'
    commandId,    \* id the command is registered under ("" while none is)
    leaves,       \* the workspace's markdown leaves
    handled,      \* what the last step did, if it was onLayoutChange
    edited,       \* a settings-panel onChange has run (in this run of the
                  \* plugin or an earlier one)
    typed,        \* the key and raw text of the last step, if it was a text
                  \* area's onChange
    toggleRun,    \* isEnabled before each of the last two invocations of the
                  \* command, if nothing but onLayoutChange ran since
    discarded     \* "enabled" or "disabled": isEnabled of the instance the last
                  \* restart discarded, if nothing but onload and
                  \* onLayoutChange ran since; else "none"

vars == <<loaded, persisted, inflight, settings, isEnabled, commandName,
          commandId, leaves, handled, edited, typed, toggleRun, discarded>>

NoCalls == [i \in LeafIds |-> NoCall]
NotHandled == [ran |-> FALSE, threw |-> FALSE, calls |-> NoCalls]
NotTyped == [key |-> "", value |-> <<>>]

\* id: 'toggle-force-read-mode'
COMMAND_ID == "toggle-force-read-mode"

\* mutant: the name is fixed when the command is first added
commandLabel_fixed(flag) == "Disable"

\* name: this.isEnabled ? 'Disable' : 'Enable'
commandLabel(flag) == IF flag THEN "Disable" ELSE "Enable"

\* mutant: the command only ever disables
flip_off(flag) == FALSE

\* this.isEnabled = !this.isEnabled
flip(flag) == ~flag

Init ==
    /\ loaded = FALSE
    /\ persisted \in PersistedChoices
    /\ inflight = <<>>
    /\ settings = [k \in Keys |-> AbsentVal]
    /\ isEnabled = TRUE
    /\ commandName = ""
    /\ commandId = ""
    /\ leaves = [i \in LeafIds |-> [view |-> "DeferredView", file |-> NoFile, mode |-> "source"]]
    /\ handled = NotHandled
    /\ edited = FALSE
    /\ typed = NotTyped
    /\ toggleRun = <<>>
    /\ discarded = "none"

\* mutant: this.settings = (await this.loadData()) || DEFAULT_SETTINGS
loadSettings_unmerged(data) == IF data.present THEN data.keys ELSE DEFAULT_SETTINGS

\* loadSettings (main.ts 102-104)
loadSettings(data) == ObjectAssign(DEFAULT_SETTINGS, data)

\* onload (main.ts 22-36)
onload ==
    /\ ~loaded
    /\ settings' = loadSettings(persisted)
    /\ commandName' = commandLabel(isEnabled)
    /\ commandId' = COMMAND_ID
    /\ loaded' = TRUE
    /\ handled' = NotHandled
    /\ typed' = NotTyped
    /\ toggleRun' = <<>>
    /\ UNCHANGED <<persisted, inflight, isEnabled, leaves, edited, discarded>>

\* mutant: the callback also reconciles the open views
toggleCommand_reconciles ==
    /\ loaded
    /\ isEnabled' = flip(isEnabled)
    /\ commandName' = commandLabel(isEnabled')
    /\ commandId' = COMMAND_ID
    /\ discarded' = "none"
    /\ toggleRun' = IF Len(toggleRun) < 2 THEN Append(toggleRun, isEnabled)
                    ELSE <<toggleRun[2], isEnabled>>
    /\ leaves' = IF isEnabled' THEN forEach(1, settings, leaves, handled.calls).leaves
                  ELSE leaves
    /\ handled' = NotHandled
    /\ typed' = NotTyped
    /\ UNCHANGED <<loaded, persisted, inflight, settings, edited>>

\* the command's callback (main.ts 43-47)
toggleCommand ==
    /\ loaded
    /\ isEnabled' = flip(isEnabled)
    /\ commandName' = commandLabel(isEnabled')
    /\ commandId' = COMMAND_ID
    /\ discarded' = "none"
    /\ toggleRun' = IF Len(toggleRun) < 2 THEN Append(toggleRun, isEnabled)
                    ELSE <<toggleRun[2], isEnabled>>
    /\ handled' = NotHandled
    /\ typed' = NotTyped
    /\ UNCHANGED <<loaded, persisted, inflight, settings, leaves, edited>>

\* mutant: the isEnabled check left out
reconcile_ungated(flag, s, ls) == forEach(1, s, ls, NoCalls)

\* the body of onLayoutChange (main.ts 54-98): nothing when disabled
reconcile(flag, s, ls) ==
    IF ~flag
    THEN [leaves |-> ls, calls |-> NoCalls, threw |-> FALSE]
    ELSE forEach(1, s, ls, NoCalls)

\* onLayoutChange (main.ts 52-99)
onLayoutChange ==
    /\ loaded
    /\ LET r == reconcile(isEnabled, settings, leaves)
       IN  /\ leaves' = r.leaves
           /\ handled' = [ran |-> TRUE, threw |-> r.threw, calls |-> r.calls]
    /\ typed' = NotTyped
    /\ UNCHANGED <<loaded, persisted, inflight, settings, isEnabled, commandName,
                   commandId, edited, toggleRun, discarded>>

\* mutant: the save runs before the assignment
saveSettings_stale(s) == Append(inflight, settings)

\* saveSettings (main.ts 107-109): saveData is called with the settings as
\* they are now
saveSettings(s) == Append(inflight, s)

\* the folder-paths text area's onChange (main.ts 132-136); display() reaches
\* .onChange only if targetFolderPaths.join exists
onChangeFolderPaths(value) ==
    /\ loaded
    /\ HasJoin(settings["targetFolderPaths"])
    /\ Len(inflight) < MaxInFlight
    /\ settings' = [settings EXCEPT !["targetFolderPaths"] = ArrayVal(parsePaths(value))]
    /\ inflight' = saveSettings(settings')
    /\ edited' = TRUE
    /\ typed' = [key |-> "targetFolderPaths", value |-> value]
    /\ handled' = NotHandled
    /\ toggleRun' = <<>>
    /\ discarded' = "none"
    /\ UNCHANGED <<loaded, persisted, isEnabled, commandName, commandId, leaves>>

\* the file-paths text area's onChange (main.ts 145-149)
onChangeFilePaths(value) ==
    /\ loaded
    /\ HasJoin(settings["targetFolderPaths"])
    /\ HasJoin(settings["targetFilePaths"])
    /\ Len(inflight) < MaxInFlight
    /\ settings' = [settings EXCEPT !["targetFilePaths"] = ArrayVal(parsePaths(value))]
    /\ inflight' = saveSettings(settings')
    /\ edited' = TRUE
    /\ typed' = [key |-> "targetFilePaths", value |-> value]
    /\ handled' = NotHandled
    /\ toggleRun' = <<>>
    /\ discarded' = "none"
    /\ UNCHANGED <<loaded, persisted, isEnabled, commandName, commandId, leaves>>

\* the toggle's onChange (main.ts 157-160)
onChangeRestoreSourceMode(value) ==
    /\ loaded
    /\ HasJoin(settings["targetFolderPaths"])
    /\ HasJoin(settings["targetFilePaths"])
    /\ Len(inflight) < MaxInFlight
    /\ settings' = [settings EXCEPT !["restoreSourceMode"] = BoolVal(value)]
    /\ inflight' = saveSettings(settings')
    /\ edited' = TRUE
    /\ typed' = NotTyped
    /\ handled' = NotHandled
    /\ toggleRun' = <<>>
    /\ discarded' = "none"
    /\ UNCHANGED <<loaded, persisted, isEnabled, commandName, commandId, leaves>>

\* the host finishes the oldest pending saveData: data.json is overwritten
saveDataDone ==
    /\ inflight # <<>>
    /\ persisted' = DataOf(Head(inflight))
    /\ inflight' = Tail(inflight)
    /\ handled' = NotHandled
    /\ typed' = NotTyped
    /\ toggleRun' = <<>>
    /\ discarded' = "none"
    /\ UNCHANGED <<loaded, settings, isEnabled, commandName, commandId, leaves, edited>>

\* the host (the user) opens or closes a file in a leaf or switches its mode
hostSetLeaf(i, cfg) ==
    /\ leaves[i] # cfg
    /\ leaves' = [leaves EXCEPT ![i] = cfg]
    /\ handled' = NotHandled
    /\ typed' = NotTyped
    /\ toggleRun' = <<>>
    /\ discarded' = "none"
    /\ UNCHANGED <<loaded, persisted, inflight, settings, isEnabled, commandName,
                   commandId, edited>>

\* mutant: the flag is a module-level variable, which outlives the instance
restart_global ==
    /\ loaded
    /\ inflight = <<>>
    /\ loaded' = FALSE
    /\ settings' = [k \in Keys |-> AbsentVal]
    /\ commandName' = ""
    /\ commandId' = ""
    /\ discarded' = IF isEnabled THEN "enabled" ELSE "disabled"
    /\ handled' = NotHandled
    /\ typed' = NotTyped
    /\ toggleRun' = <<>>
    /\ UNCHANGED <<isEnabled, persisted, inflight, leaves, edited>>

\* the host unloads the plugin (its command goes with it) and constructs a
\* new instance (main.ts 17-19: settings unset, isEnabled = true), once the
\* pending saves are written; onload follows
restart ==
    /\ loaded
    /\ inflight = <<>>
    /\ loaded' = FALSE
    /\ settings' = [k \in Keys |-> AbsentVal]
    /\ isEnabled' = TRUE
    /\ commandName' = ""
    /\ commandId' = ""
    /\ discarded' = IF isEnabled THEN "enabled" ELSE "disabled"
    /\ handled' = NotHandled
    /\ typed' = NotTyped
    /\ toggleRun' = <<>>
    /\ UNCHANGED <<persisted, inflight, leaves, edited>>

Next ==
    \/ onload
    \/ toggleCommand
    \/ onLayoutChange
    \/ \E value \in FolderTexts : onChangeFolderPaths(value)
    \/ \E value \in FileTexts : onChangeFilePaths(value)
    \/ \E value \in BOOLEAN : onChangeRestoreSourceMode(value)
    \/ saveDataDone
    \/ \E i \in LeafIds, cfg \in LeafConfigs : hostSetLeaf(i, cfg)
    \/ restart

Spec == Init /\ [][Next]_vars

(***************************************************************************)
(* The settings panel alone: after onload, one text-area edit with any     *)
(* raw text over a small alphabet, or with the text "a/b\n\na/c\n  \n".    *)
(***************************************************************************)
Alphabet == {"a", "/", SP, NL}
Texts == UNION { [1..n -> Alphabet] : n \in 0..MaxTextLen }
ExampleText == <<"a", "/", "b", NL, NL, "a", "/", "c", NL, SP, SP, NL>>
TypedTexts == Texts \cup {ExampleText}

NextPanel ==
    \/ onload
    \/ \E value \in TypedTexts : ~edited /\ onChangeFolderPaths(value)
    \/ \E value \in TypedTexts : ~edited /\ onChangeFilePaths(value)
    \/ saveDataDone

SpecPanel == Init /\ [][NextPanel]_vars

(***************************************************************************)
(* Vocabulary of the properties.                                           *)
(***************************************************************************)
\* the settings have the shape ForceReadModePluginSettings declares
WellShaped(s) ==
    /\ s["targetFolderPaths"].kind = "array"
    /\ s["targetFilePaths"].kind = "array"
    /\ s["restoreSourceMode"].kind = "boolean"

\* path is P + "/" + anything (a P that ends in "/" needs no second one)
InFolder(path, P) ==
    /\ P # <<>>
    /\ startsWith(path, IF P[Len(P)] = "/" THEN P ELSE P \o <<"/">>)

UnderSomeFolder(s, path) ==
    \E k \in 1..Len(s["targetFolderPaths"].list) :
        InFolder(path, s["targetFolderPaths"].list[k])

EqualsSomeFile(s, path) ==
    \E k \in 1..Len(s["targetFilePaths"].list) : s["targetFilePaths"].list[k] = path

\* an open markdown view with a file
IsOpenFile(leaf) == leaf.view = "MarkdownView" /\ leaf.file # NoFile

\* leaf i was in source mode when the last onLayoutChange wrote to it
WroteOverSource(i, m) ==
    /\ handled.calls[i].issued
    /\ handled.calls[i].got.state.mode = "source"
    /\ handled.calls[i].put.state.mode = m
    /\ leaves[i].mode = m

(***************************************************************************)
(* C1: a layout-change handled while enabled leaves every open markdown    *)
(* view whose file path is P + "/" + anything, P an entry of               *)
(* targetFolderPaths, in mode 'preview', whatever its mode was and         *)
(* whatever restoreSourceMode is (settings of the declared shape).         *)
(***************************************************************************)
C1_FolderForcesPreview ==
    [][ (onLayoutChange /\ isEnabled /\ WellShaped(settings)) =>
            \A i \in LeafIds :
                (IsOpenFile(leaves[i]) /\ UnderSomeFolder(settings, leaves[i].file))
                    => leaves'[i].mode = "preview" ]_vars

C1_Witness ==
    /\ handled.ran /\ isEnabled /\ WellShaped(settings)
    /\ settings["restoreSourceMode"].bool
    /\ \E i \in LeafIds :
          /\ IsOpenFile(leaves[i]) /\ UnderSomeFolder(settings, leaves[i].file)
          /\ WroteOverSource(i, "preview")

(***************************************************************************)
(* C2: a layout-change leaves an open markdown view whose path is under no *)
(* configured folder and equals no configured file path untouched (no      *)
(* setViewState) when restoreSourceMode is false, and forces it to         *)
(* 'source' when restoreSourceMode is true.                                *)
(***************************************************************************)
C2_NonTargetLeftOrRestored ==
    [][ (onLayoutChange /\ isEnabled /\ WellShaped(settings)) =>
            \A i \in LeafIds :
                (/\ IsOpenFile(leaves[i])
                 /\ ~UnderSomeFolder(settings, leaves[i].file)
                 /\ ~EqualsSomeFile(settings, leaves[i].file))
                    => IF settings["restoreSourceMode"].bool
                       THEN leaves'[i].mode = "source"
                       ELSE leaves'[i] = leaves[i] /\ ~handled'.calls[i].issued ]_vars

(***************************************************************************)
(* C3: a layout-change handled while enabled forces every open markdown    *)
(* view whose file path equals an entry of targetFilePaths to 'preview',   *)
(* whatever targetFolderPaths holds and whatever restoreSourceMode is      *)
(* (settings of the declared shape).                                       *)
(***************************************************************************)
C3_ExactFileForcesPreview ==
    [][ (onLayoutChange /\ isEnabled /\ WellShaped(settings)) =>
            \A i \in LeafIds :
                (IsOpenFile(leaves[i]) /\ EqualsSomeFile(settings, leaves[i].file))
                    => leaves'[i].mode = "preview" ]_vars

C3_Witness ==
    /\ handled.ran /\ isEnabled /\ WellShaped(settings)
    /\ settings["targetFolderPaths"].list = <<>>
    /\ settings["restoreSourceMode"].bool
    /\ \E i \in LeafIds :
          /\ IsOpenFile(leaves[i]) /\ EqualsSomeFile(settings, leaves[i].file)
          /\ WroteOverSource(i, "preview")

(***************************************************************************)
(* C4: a layout-change handled while isEnabled is false alters no view:    *)
(* no setViewState call is issued and every leaf is as it was, matching    *)
(* or not, for either value of restoreSourceMode.                          *)
(***************************************************************************)
C4_DisabledAltersNothing ==
    [][ (onLayoutChange /\ ~isEnabled) =>
            /\ leaves' = leaves
            /\ \A i \in LeafIds : ~handled'.calls[i].issued
            /\ ~handled'.threw ]_vars

C4_Witness ==
    /\ handled.ran /\ ~isEnabled /\ WellShaped(settings)
    /\ settings["restoreSourceMode"].bool
    /\ \E i \in LeafIds :
          /\ IsOpenFile(leaves[i]) /\ UnderSomeFolder(settings, leaves[i].file)
          /\ leaves[i].mode = "source"
    /\ \A i \in LeafIds : ~handled.calls[i].issued

(***************************************************************************)
(* C5: the second of two invocations of the toggle command in a row        *)
(* returns isEnabled to the value it had before the first; and when that   *)
(* value was true, the next layout-change again forces the views the       *)
(* reconciler matches to 'preview' (settings of the declared shape).       *)
(***************************************************************************)
C5_DoubleToggleRestores ==
    [][ /\ (toggleCommand /\ toggleRun # <<>>)
            => isEnabled' = toggleRun[Len(toggleRun)]
        /\ (onLayoutChange /\ Len(toggleRun) = 2 /\ toggleRun[1]
                /\ WellShaped(settings))
            => \A i \in LeafIds :
                   (/\ IsOpenFile(leaves[i])
                    /\ \/ UnderSomeFolder(settings, leaves[i].file)
                       \/ EqualsSomeFile(settings, leaves[i].file))
                       => leaves'[i].mode = "preview" ]_vars

C5_Witness ==
    /\ handled.ran /\ WellShaped(settings)
    /\ toggleRun = <<TRUE, FALSE>> /\ isEnabled
    /\ \E i \in LeafIds :
          /\ IsOpenFile(leaves[i]) /\ UnderSomeFolder(settings, leaves[i].file)
          /\ WroteOverSource(i, "preview")

(***************************************************************************)
(* C6: every object the reconciler passes to setViewState is the view      *)
(* state getViewState returned with only the mode overridden: every other  *)
(* top-level field, and every other field nested in 'state', is present    *)
(* with the value it had.                                                  *)
(***************************************************************************)
C6_WritePreservesAllButMode ==
    \A i \in LeafIds :
        handled.calls[i].issued =>
            LET got == handled.calls[i].got
                put == handled.calls[i].put
            IN  /\ \A f \in DOMAIN got \ {"state"} :
                       f \in DOMAIN put /\ put[f] = got[f]
                /\ "state" \in DOMAIN put
                /\ \A g \in DOMAIN got.state \ {"mode"} :
                       g \in DOMAIN put.state /\ put.state[g] = got.state[g]

(***************************************************************************)
(* C7: after a text area's onChange with raw text v, the stored list is    *)
(* the lines of v (the stretches between newlines), in order, each         *)
(* stripped of surrounding whitespace, those left empty dropped; so no     *)
(* stored entry is empty or starts or ends with whitespace, duplicates     *)
(* stay, and "a/b\n\na/c\n  \n" is stored as ["a/b", "a/c"].               *)
(***************************************************************************)
KthSmallest(S, k) == CHOOSE x \in S : Cardinality({y \in S : y < x}) = k - 1
Least(S) == CHOOSE x \in S : \A y \in S : x <= y
Greatest(S) == CHOOSE x \in S : \A y \in S : y <= x

\* the expected list, by positions in v: line k runs from after the (k-1)th
\* newline to before the kth; it is kept from its first to its last
\* non-whitespace character
ExpectedList(v) ==
    LET newlines == {i \in 1..Len(v) : v[i] = NL}
        first(k) == KthSmallest(newlines \cup {0}, k) + 1
        last(k) == KthSmallest(newlines \cup {Len(v) + 1}, k) - 1
        ink(k) == {i \in first(k)..last(k) : ~IsWhitespace(v[i])}
        kept == {k \in 1..(Cardinality(newlines) + 1) : ink(k) # {}}
    IN  [j \in 1..Cardinality(kept) |->
            LET k == KthSmallest(kept, j)
            IN  SubSeq(v, Least(ink(k)), Greatest(ink(k)))]

C7_StoredListIsTrimmedLines ==
    typed.key # "" =>
        LET stored == settings[typed.key]
        IN  /\ stored.kind = "array"
            /\ stored.list = ExpectedList(typed.value)
            /\ \A j \in 1..Len(stored.list) :
                   /\ stored.list[j] # <<>>
                   /\ ~IsWhitespace(stored.list[j][1])
                   /\ ~IsWhitespace(stored.list[j][Len(stored.list[j])])
            /\ typed.value = ExampleText =>
                   stored.list = << <<"a", "/", "b">>, <<"a", "/", "c">> >>
            /\ typed.value = <<"a", NL, "a">> => stored.list = << <<"a">>, <<"a">> >>

C7_Witness ==
    /\ typed.key = "targetFilePaths"
    /\ typed.value = ExampleText
    /\ settings["targetFilePaths"].list = << <<"a", "/", "b">>, <<"a", "/", "c">> >>

(***************************************************************************)
(* C8: onload leaves in the settings, for every key, the value data.json   *)
(* holds under it, and the default (an empty list for the two path lists,  *)
(* false for restoreSourceMode) where data.json lacks the key; with no     *)
(* data.json the settings are exactly the defaults and isEnabled is true.  *)
(***************************************************************************)
C8_LoadMergesOverDefaults ==
    [][ onload =>
            /\ \A k \in Keys :
                   IF persisted.present /\ persisted.keys[k].kind # "absent"
                   THEN settings'[k] = persisted.keys[k]
                   ELSE settings'[k] = IF k = "restoreSourceMode"
                                       THEN BoolVal(FALSE) ELSE ArrayVal(<<>>)
            /\ ~persisted.present =>
                   /\ settings'["targetFolderPaths"] = ArrayVal(<<>>)
                   /\ settings'["targetFilePaths"] = ArrayVal(<<>>)
                   /\ settings'["restoreSourceMode"] = BoolVal(FALSE)
                   /\ isEnabled' ]_vars

\* data.json held targetFolderPaths only; the other two keys took defaults
C8_Witness ==
    /\ loaded /\ ~edited /\ inflight = <<>>
    /\ persisted.present
    /\ persisted.keys["targetFolderPaths"] = ArrayVal(<< <<"n">> >>)
    /\ persisted.keys["targetFilePaths"].kind = "absent"
    /\ persisted.keys["restoreSourceMode"].kind = "absent"
    /\ settings["targetFolderPaths"] = ArrayVal(<< <<"n">> >>)
    /\ settings["targetFilePaths"] = ArrayVal(<<>>)
    /\ settings["restoreSourceMode"] = BoolVal(FALSE)

(***************************************************************************)
(* C9: whatever data.json held (nothing, an object missing keys, an object *)
(* with values of the wrong shape), no layout-change raises an error.      *)
(***************************************************************************)
C9_LayoutChangeNeverRaises == ~handled.threw

(***************************************************************************)
(* C10: every settings-panel change saves the full in-memory settings: the *)
(* newest pending save is of the settings as they are, and once a panel    *)
(* change has happened and no save is pending, data.json equals the        *)
(* in-memory settings.                                                     *)
(***************************************************************************)
C10_PersistedIsInMemory ==
    /\ inflight # <<>> => inflight[Len(inflight)] = settings
    /\ (loaded /\ edited /\ inflight = <<>>) => persisted = DataOf(settings)

\* settings no data.json started with, so written by a save
C10_Witness ==
    /\ loaded /\ edited /\ inflight = <<>>
    /\ settings["targetFolderPaths"] = ArrayVal(<<>>)
    /\ settings["targetFilePaths"] = ArrayVal(<< <<"n", "/", "x">> >>)
    /\ settings["restoreSourceMode"] = BoolVal(TRUE)
    /\ persisted = DataOf(settings)

(***************************************************************************)
(* C11: whenever the plugin is loaded, the command is registered under the *)
(* id 'toggle-force-read-mode' and its name is "Disable" exactly when      *)
(* isEnabled is true and "Enable" exactly when it is false, after any      *)
(* number of invocations.                                                  *)
(***************************************************************************)
C11_LabelReflectsFlag ==
    loaded =>
        /\ commandId = "toggle-force-read-mode"
        /\ commandName \in {"Disable", "Enable"}
        /\ (commandName = "Disable") = isEnabled
        /\ (commandName = "Enable") = ~isEnabled

C11_Witness ==
    /\ loaded
    /\ toggleRun = <<FALSE, TRUE>>
    /\ ~isEnabled
    /\ commandName = "Enable"
    /\ commandId = "toggle-force-read-mode"

(***************************************************************************)
(* C12: isEnabled is in memory only.  No invocation of the command writes  *)
(* to data.json or queues a save, and data.json never holds anything but   *)
(* the three settings keys; after a restart, whatever the discarded        *)
(* instance's flag and settings edits, onload ends with isEnabled true,    *)
(* and the next layout-change forces the target views to 'preview'         *)
(* (settings of the declared shape).                                       *)
(***************************************************************************)
C12_FlagResetsOnRestart ==
    [][ /\ toggleCommand => (persisted' = persisted /\ inflight' = inflight)
        /\ DOMAIN persisted'.keys = Keys
        /\ onload => isEnabled'
        /\ (onLayoutChange /\ discarded # "none" /\ WellShaped(settings))
            => /\ isEnabled
               /\ \A i \in LeafIds :
                      (/\ IsOpenFile(leaves[i])
                       /\ \/ UnderSomeFolder(settings, leaves[i].file)
                          \/ EqualsSomeFile(settings, leaves[i].file))
                          => leaves'[i].mode = "preview" ]_vars

\* the discarded instance was disabled and had its settings edited; the new
\* one is enabled and has reconciled
C12_Witness ==
    /\ loaded /\ isEnabled /\ edited
    /\ discarded = "disabled"
    /\ handled.ran
    /\ \E i \in LeafIds :
          /\ IsOpenFile(leaves[i]) /\ EqualsSomeFile(settings, leaves[i].file)
          /\ WroteOverSource(i, "preview")

(***************************************************************************)
(* C13: a layout-change skips every leaf whose view is not a MarkdownView  *)
(* or has no file: no setViewState call for it, the leaf is as it was, and *)
(* no error comes of it; the leaves after it are still processed (settings *)
(* of the declared shape).                                                 *)
(***************************************************************************)
C13_SkipsNonMarkdownAndFileless ==
    [][ onLayoutChange =>
            /\ \A i \in LeafIds :
                   ~IsOpenFile(leaves[i]) =>
                       leaves'[i] = leaves[i] /\ ~handled'.calls[i].issued
            /\ WellShaped(settings) => ~handled'.threw
            /\ (isEnabled /\ WellShaped(settings)) =>
                   \A i, j \in LeafIds :
                       (/\ i < j
                        /\ ~IsOpenFile(leaves[i])
                        /\ IsOpenFile(leaves[j])
                        /\ EqualsSomeFile(settings, leaves[j].file))
                           => /\ handled'.calls[j].issued
                              /\ leaves'[j].mode = "preview" ]_vars

\* a leaf without a MarkdownView and a leaf without a file were skipped, and
\* a leaf after one of them was written
C13_Witness ==
    /\ handled.ran /\ isEnabled /\ ~handled.threw
    /\ \E i, j \in LeafIds :
          /\ i < j
          /\ ~IsOpenFile(leaves[i])
          /\ ~handled.calls[i].issued
          /\ IsOpenFile(leaves[j])
          /\ WroteOverSource(j, "preview")

(***************************************************************************)
(* C14: a layout-change that directly follows another (settings, flag and  *)
(* open files unchanged) leaves every view in the mode the first left it   *)
(* in and passes the same objects to setViewState for the same leaves: a   *)
(* view already in the wanted mode is written again.                       *)
(***************************************************************************)
C14_IdempotentNotShortCircuited ==
    [][ (onLayoutChange /\ handled.ran) =>
            /\ leaves' = leaves
            /\ handled'.threw = handled.threw
            /\ \A i \in LeafIds :
                   /\ handled'.calls[i].issued = handled.calls[i].issued
                   /\ handled'.calls[i].put = handled.calls[i].put ]_vars

\* a view that was in preview already was written 'preview', and a view
\* that was in source already was written 'source'
C14_Witness ==
    /\ handled.ran
    /\ \E i, j \in LeafIds :
          /\ handled.calls[i].issued
          /\ handled.calls[i].got.state.mode = "preview"
          /\ handled.calls[i].put.state.mode = "preview"
          /\ handled.calls[j].issued
          /\ handled.calls[j].got.state.mode = "source"
          /\ handled.calls[j].put.state.mode = "source"

(***************************************************************************)
(* C15: folder matching is a plain prefix test: a layout-change handled    *)
(* while enabled forces an open file to 'preview' if some entry of         *)
(* targetFolderPaths is a prefix of its path, character by character, and  *)
(* if none is (and no file path equals it) does what restoreSourceMode     *)
(* says; so with targetFolderPaths = ["n"] both "n/x" and the sibling      *)
(* "nb/x" are forced to preview (settings of the declared shape).  The     *)
(* callbacks of the two earlier versions classify by the same prefix test. *)
(***************************************************************************)
IsPrefix(P, path) ==
    /\ Len(P) <= Len(path)
    /\ \A c \in 1..Len(P) : path[c] = P[c]

SomeFolderIsPrefix(s, path) ==
    \E k \in 1..Len(s["targetFolderPaths"].list) :
        IsPrefix(s["targetFolderPaths"].list[k], path)

PanelChange ==
    \/ \E value \in FolderTexts : onChangeFolderPaths(value)
    \/ \E value \in FileTexts : onChangeFilePaths(value)
    \/ \E value \in BOOLEAN : onChangeRestoreSourceMode(value)

C16_OperationsTouchDisjointState ==
    [][ /\ ~UNCHANGED <<settings, persisted, inflight, isEnabled>> =>
               ~onLayoutChange
        /\ ~UNCHANGED <<settings, persisted, inflight, leaves>> =>
               ~toggleCommand
        /\ ~UNCHANGED <<isEnabled, leaves>> =>
               ~PanelChange ]_vars

\* the command has just re-enabled the plugin, and a view in a target
\* folder is still in source mode
C16_Witness ==
    /\ loaded /\ isEnabled /\ WellShaped(settings)
    /\ ~handled.ran
    /\ toggleRun # <<>> /\ toggleRun[Len(toggleRun)] = FALSE
    /\ \E i \in LeafIds :
          /\ IsOpenFile(leaves[i]) /\ UnderSomeFolder(settings, leaves[i].file)
          /\ leaves[i].mode = "source"

(***************************************************************************)
(* C17: while restoreSourceMode is false the plugin never writes 'source': *)
(* no setViewState call of a layout-change carries mode 'source', and a    *)
(* step that takes a view out of 'preview' is a change made by the host,   *)
(* never a step of the plugin (layout-change, command, panel change,       *)
(* load), also after the view's path has left the target lists.            *)
(* In every layout-change the callbacks of the two earlier versions,       *)
(* which have no such setting, choose 'source' for no leaf.                *)
(***************************************************************************)
HostChangesLeaf == \E i \in LeafIds, cfg \in LeafConfigs : hostSetLeaf(i, cfg)

C17_NoSourceWriteWithoutRestore ==
    [][ /\ onLayoutChange =>
               \A i \in LeafIds :
                   /\ decide_withoutRestore(settings, leaves[i]) # "source"
                   /\ decide_folderOnly(settings, leaves[i]) # "source"
                   /\ ~Truthy(settings["restoreSourceMode"]) =>
                          /\ decide_withoutRestore(settings, leaves[i])
                                 = decide(settings, leaves[i])
                          /\ handled'.calls[i].issued =>
                                 handled'.calls[i].put.state.mode # "source"
        /\ ( /\ ~Truthy(settings["restoreSourceMode"])
             /\ \E i \in LeafIds :
                    leaves[i].mode = "preview" /\ leaves'[i].mode # "preview" ) =>
               HostChangesLeaf ]_vars

\* a view in preview whose path is in no target list, left in preview by a
\* layout-change
C17_Witness ==
    /\ handled.ran /\ isEnabled /\ WellShaped(settings)
    /\ ~settings["restoreSourceMode"].bool
    /\ edited
    /\ settings["targetFolderPaths"].list = <<>>
    /\ settings["targetFilePaths"].list = <<>>
    /\ \E i \in LeafIds :
          /\ IsOpenFile(leaves[i])
          /\ leaves[i].mode = "preview"
          /\ ~handled.calls[i].issued

============================================================================
